---------------------------- MODULE Spec2Model ----------------------------
(***************************************************************************)
(* Model of the equine bodywork session tracker.                           *)
(*                                                                         *)
(* Two near-identical Streamlit scripts make up the repository:            *)
(*   src/Equine_Bodywork.py   (variant "main")                             *)
(*   src/test_sendgrid.py     (variant "test")                             *)
(* Each has a path rasterizer (export_canvas_to_file), a mail sender       *)
(* (send_session_email) and a Save Session handler that appends a row to   *)
(* data/session_data.csv, exports both canvases and mails the client.      *)
(*                                                                         *)
(* Text (field values, the CSV file) is a sequence of one-character        *)
(* strings, so that quoting, parsing and type inference are computed.      *)
(* An optional value (a dict key that may be missing, a file that may not  *)
(* exist) is a sequence of length 0 or 1.                                  *)
(***************************************************************************)
EXTENDS Integers, Sequences, FiniteSets, TLC

VARIABLES
    variant,    \* which script runs: "main" or "test"
    csv,        \* data/session_data.csv: <<>> if absent, else <<text>>
    disk,       \* data/<horse>_<side>.png: <<>> if absent, else <<file>>
    saves,      \* number of Save Session presses so far
    run,        \* what the latest Save Session press did
    history,    \* the rows of the record file as each save first wrote them
    rs_canvas,  \* rasterizer harness: the canvas payload handed in
    rs_saved,   \* rasterizer harness: <<>> or <<image saved at save_path>>
    rs_pc       \* rasterizer harness: "ready" or "done"

vars == <<variant, csv, disk, saves, run, history, rs_canvas, rs_saved, rs_pc>>

handlerVars == <<variant, csv, disk, saves, run, history>>
rasterVars == <<rs_canvas, rs_saved, rs_pc>>

-----------------------------------------------------------------------------
(* Bounds *)

MaxSaves == 2       \* Save Session presses per behaviour
MaxObjects == 2     \* objects per canvas payload in the rasterizer harness

-----------------------------------------------------------------------------
(* Generic helpers *)

\* dict.get(key, default) on an optional value
Get(opt, default) == IF opt = <<>> THEN default ELSE opt[1]

RECURSIVE Concat(_)
Concat(ss) == IF ss = <<>> THEN <<>> ELSE Head(ss) \o Concat(Tail(ss))

RECURSIVE SeqsUpTo(_, _)
SeqsUpTo(S, n) ==
    IF n = 0 THEN {<<>>}
    ELSE LET shorter == SeqsUpTo(S, n - 1)
         IN  shorter \cup {Append(s, x) : s \in shorter, x \in S}

-----------------------------------------------------------------------------
(* Path rasterizer: export_canvas_to_file *)

\* Image.open("images/horse_<side>.png")
left_img == [src |-> "images/horse_left.png", mode |-> "native", lines |-> <<>>]
right_img == [src |-> "images/horse_right.png", mode |-> "native", lines |-> <<>>]

\* background_image.convert("RGBA"): a new image, the source is left alone
convert_RGBA(image) == [image EXCEPT !.mode = "RGBA"]

\* ImageColor.getrgb on the color strings the model uses: a tuple of
\* channels, or <<>> where getrgb raises ValueError.  Names are matched
\* case-insensitively; #rgb, #rrggbb give three channels, #rrggbbaa four.
ImageColor_getrgb(color) ==
    CASE color = "#ff0000"   -> <<255, 0, 0>>
      [] color = "#00ff00"   -> <<0, 255, 0>>
      [] color = "#00F"      -> <<0, 0, 255>>
      [] color = "Blue"      -> <<0, 0, 255>>
      [] color = "#00ff0080" -> <<0, 255, 0, 128>>
      [] OTHER               -> <<>>

\* Mutant of py_int: a float width is rounded to the nearest integer
py_int_round(w) ==
    CASE w.kind = "int"    -> <<w.n>>
      [] w.kind = "float"  -> <<(w.n + 5) \div 10>>
      [] w.kind = "numstr" -> <<w.n>>
      [] OTHER             -> <<>>

\* int(x) for a strokeWidth value: <<n>>, or <<>> where int raises.
\* A value is [kind, n]: an int n, a float of n tenths (int truncates
\* toward zero), a string holding the decimal n, any other string, or null.
py_int(w) ==
    CASE w.kind = "int"    -> <<w.n>>
      [] w.kind = "float"  -> <<IF w.n >= 0 THEN w.n \div 10 ELSE -((-w.n) \div 10)>>
      [] w.kind = "numstr" -> <<w.n>>
      [] OTHER             -> <<>>

DefaultStroke == "#ff0000"
DefaultStrokeWidth == [kind |-> "int", n |-> 3]

\* Mutant of path_points: a curve contributes its control point
RECURSIVE path_points_control(_, _)
path_points_control(segments, acc) ==
    IF segments = <<>> THEN [ok |-> TRUE, pts |-> acc]
    ELSE LET segment == Head(segments) IN
         IF Len(segment) = 0 THEN [ok |-> FALSE, pts |-> acc]
         ELSE LET cmd == segment[1]
                  coords == Tail(segment)
              IN  IF cmd \in {"M", "L", "Q"}
                  THEN IF Len(coords) < (IF cmd = "Q" THEN 4 ELSE 2)
                       THEN [ok |-> FALSE, pts |-> acc]
                       ELSE path_points_control(Tail(segments),
                                                Append(acc, <<coords[1], coords[2]>>))
                  ELSE path_points_control(Tail(segments), acc)

\* The loop over obj.get("path", []): [ok, pts].  ok = FALSE when an index
\* raises IndexError (empty segment, too few coordinates).
RECURSIVE path_points(_, _)
path_points(segments, acc) ==
    IF segments = <<>> THEN [ok |-> TRUE, pts |-> acc]
    ELSE LET segment == Head(segments) IN
         IF Len(segment) = 0 THEN [ok |-> FALSE, pts |-> acc]
         ELSE LET cmd == segment[1]
                  coords == Tail(segment)
              IN  IF cmd \in {"M", "L"}
                  THEN IF Len(coords) < 2 THEN [ok |-> FALSE, pts |-> acc]
                       ELSE path_points(Tail(segments),
                                        Append(acc, <<coords[1], coords[2]>>))
                  ELSE IF cmd = "Q"
                  THEN IF Len(coords) < 4 THEN [ok |-> FALSE, pts |-> acc]
                       ELSE path_points(Tail(segments),
                                        Append(acc, <<coords[3], coords[4]>>))
                  ELSE path_points(Tail(segments), acc)

\* draw.line(path_points, fill=color, width=stroke_width): the line added
\* to the image, or <<>> where Pillow rejects the ink (a fill that is not
\* a tuple of three or four channels).
draw_line(points, fill, width) ==
    IF Len(fill) \in {3, 4}
    THEN <<[xy |-> points, fill |-> fill, width |-> width]>>
    ELSE <<>>

\* The body of the try block for one path object: the lines it adds to the
\* image.  Every exception is caught and leaves the image as it was.
draw_path(obj) ==
    LET stroke == Get(obj.stroke, DefaultStroke)
        stroke_width == py_int(Get(obj.strokeWidth, DefaultStrokeWidth))
        rgb == ImageColor_getrgb(stroke)
    IN  IF stroke_width = <<>> THEN <<>>
        ELSE IF rgb = <<>> THEN <<>>
        ELSE LET color == Append(rgb, 255)
                 walked == path_points(Get(obj.path, <<>>), <<>>)
             IN  IF ~walked.ok THEN <<>>
                 ELSE IF Len(walked.pts) > 1
                      THEN draw_line(walked.pts, color, stroke_width[1])
                      ELSE <<>>

\* One iteration of "for obj in objects"
draw_object(obj, img) ==
    IF obj.type = "path"
    THEN [img EXCEPT !.lines = @ \o draw_path(obj)]
    ELSE img

\* Mutant of draw_objects: the try block encloses the loop, so the first
\* path object that raises ends the drawing
RECURSIVE draw_objects_abort(_, _)
draw_objects_abort(objects, img) ==
    IF objects = <<>> THEN img
    ELSE LET obj == Head(objects)
             raises == /\ obj.type = "path"
                       /\ draw_path(obj) = <<>>
                       /\ \/ py_int(Get(obj.strokeWidth, DefaultStrokeWidth)) = <<>>
                          \/ Len(ImageColor_getrgb(Get(obj.stroke, DefaultStroke))) # 3
                          \/ ~path_points(Get(obj.path, <<>>), <<>>).ok
         IN  IF raises THEN img
             ELSE draw_objects_abort(Tail(objects), draw_object(obj, img))

RECURSIVE draw_objects(_, _)
draw_objects(objects, img) ==
    IF objects = <<>> THEN img
    ELSE draw_objects(Tail(objects), draw_object(Head(objects), img))

\* json_data is None or {} (falsy), or has no "objects" key
payload_missing(canvas_data) ==
    \/ ~canvas_data.truthy
    \/ canvas_data.objects = <<>>

\* export_canvas_to_file: <<>> when it returns without saving, else the
\* image saved at save_path.
export_canvas_to_file(canvas_data, background_image) ==
    IF payload_missing(canvas_data) THEN <<>>
    ELSE <<draw_objects(canvas_data.objects[1], convert_RGBA(background_image))>>

-----------------------------------------------------------------------------
(* Canvas payloads *)

\* json_data: None, a dict without "objects", or a dict with "objects"
NoJson == [truthy |-> FALSE, objects |-> <<>>]
NoObjectsKey == [truthy |-> TRUE, objects |-> <<>>]
Payload(objects) == [truthy |-> TRUE, objects |-> <<objects>>]

PathObj(stroke, strokeWidth, path) ==
    [type |-> "path", stroke |-> stroke, strokeWidth |-> strokeWidth, path |-> path]

IntW(n) == [kind |-> "int", n |-> n]

GoodPath == << <<"M", 1, 2>>, <<"Q", 9, 9, 3, 4>>, <<"L", 5, 6>> >>

\* Strokes that differ in their declared color
ColorObjects ==
    {PathObj(c, <<IntW(5)>>, <<GoodPath>>) :
        c \in {<<>>, <<"#00ff00">>, <<"Blue">>, <<"#00F">>, <<"#00ff0080">>,
               <<"notacolor">>}}

\* Strokes that differ in their declared width
WidthObjects ==
    {PathObj(<<"#00ff00">>, w, <<GoodPath>>) :
        w \in {<<>>, <<IntW(1)>>, <<[kind |-> "float", n |-> 47]>>,
               <<[kind |-> "numstr", n |-> 7]>>, <<[kind |-> "badstr", n |-> 0]>>,
               <<[kind |-> "null", n |-> 0]>>}}

\* Strokes that differ in their segment list
SamplePaths ==
    { <<>>,
      << <<"M", 1, 2>> >>,
      << <<"M", 1, 2>>, <<"L", 3, 4>> >>,
      << <<"M", 7, 7, 8>>, <<"Q", 1, 1, 2, 2, 9>>, <<"Q", 5, 5, 6, 6>> >>,
      << <<"M", 1, 2>>, <<"C", 1, 1, 2, 2, 3, 3>>, <<"L", 3, 4>> >>,
      << <<"M", 1, 2>>, <<"z">>, <<"L", 3, 4>>, <<"L", 8, 9>> >>,
      << <<"M", 1, 2>>, <<"L", 3>>, <<"L", 5, 6>> >>,
      << <<"M", 1, 2>>, <<"L", 3, 4>>, <<"Q", 1, 1, 2>> >>,
      << <<"M", 1, 2>>, <<>>, <<"L", 5, 6>> >>,
      << <<"M">>, <<"L", 3, 4>>, <<"L", 5, 6>> >> }

PathObjects ==
    {PathObj(<<>>, <<>>, <<p>>) : p \in SamplePaths}
        \cup {PathObj(<<"Blue">>, <<IntW(2)>>, <<>>)}

OtherObjects ==
    {[type |-> "rect", stroke |-> <<"#00ff00">>, strokeWidth |-> <<IntW(5)>>,
      path |-> <<GoodPath>>]}

SampleObjects == ColorObjects \cup WidthObjects \cup PathObjects \cup OtherObjects

SamplePayloads ==
    {NoJson, NoObjectsKey} \cup {Payload(os) : os \in SeqsUpTo(SampleObjects, MaxObjects)}

-----------------------------------------------------------------------------
(* Rasterizer harness *)

RasterIdle ==
    /\ rs_canvas = NoJson
    /\ rs_saved = <<>>
    /\ rs_pc = "idle"

Export ==
    /\ rs_pc = "ready"
    /\ rs_saved' = export_canvas_to_file(rs_canvas, left_img)
    /\ rs_pc' = "done"
    /\ UNCHANGED rs_canvas
    /\ UNCHANGED handlerVars

-----------------------------------------------------------------------------
(* Text *)

NL == "\n"
Comma == ","
DQuote == "\""

DigitChars == <<"0", "1", "2", "3", "4", "5", "6", "7", "8", "9">>

IsDigit(c) == \E d \in 1..10 : DigitChars[d] = c
DigitVal(c) == (CHOOSE d \in 1..10 : DigitChars[d] = c) - 1

\* str(n) for a natural number
RECURSIVE NatText(_)
NatText(n) ==
    IF n < 10 THEN <<DigitChars[n + 1]>>
    ELSE Append(NatText(n \div 10), DigitChars[(n % 10) + 1])

RECURSIVE ParseNat(_, _)
ParseNat(s, acc) ==
    IF s = <<>> THEN acc ELSE ParseNat(Tail(s), acc * 10 + DigitVal(Head(s)))

Count(s, c) == Cardinality({i \in 1..Len(s) : s[i] = c})

RECURSIVE StripTrailingZeros(_)
StripTrailingZeros(s) ==
    IF s # <<>> /\ s[Len(s)] = "0"
    THEN StripTrailingZeros(SubSeq(s, 1, Len(s) - 1))
    ELSE s

-----------------------------------------------------------------------------
(* pandas values.  A cell is [t, s, n]:                                     *)
(*   str    s = the characters                                              *)
(*   int    n = the value                                                   *)
(*   float  n = the integer part, s = the fraction digits of its repr       *)
(*   bool   n = 1 for True, 0 for False                                     *)
(*   nan    a missing value                                                 *)

StrCell(s) == [t |-> "str", s |-> s, n |-> 0]
IntCell(n) == [t |-> "int", s |-> <<>>, n |-> n]
FloatCell(n, frac) == [t |-> "float", s |-> frac, n |-> n]
BoolCell(b) == [t |-> "bool", s |-> <<>>, n |-> IF b THEN 1 ELSE 0]
NaN == [t |-> "nan", s |-> <<>>, n |-> 0]

Columns ==
    << <<"D", "a", "t", "e">>, <<"H", "o", "r", "s", "e">>,
       <<"A", "m", "o", "u", "n", "t">>, <<"P", "a", "i", "d">>,
       <<"E", "m", "a", "i", "l">>, <<"N", "o", "t", "e", "s">> >>

\* pd.DataFrame([session_data]): one row, columns in the dict's key order.
\* Date is a datetime.date (written as its ISO text), Amount a float, Paid
\* a bool, the others str.
DataFrame(session) ==
    [columns |-> Columns,
     rows |-> << << StrCell(session.Date), StrCell(session.Horse), session.Amount,
                    BoolCell(session.Paid), StrCell(session.Email),
                    StrCell(session.Notes) >> >>]

\* pd.concat([existing, df], ignore_index=True).  The new row's Horse,
\* Email and Notes are str, so a numeric column read from the file becomes
\* an object column and keeps its values; Amount is float and Paid is bool
\* on both sides.  No value is converted.
concat(existing, df) ==
    [columns |-> existing.columns, rows |-> existing.rows \o df.rows]

-----------------------------------------------------------------------------
(* DataFrame.to_csv(csv_path, index=False) *)

\* str() of a value as to_csv writes it (na_rep = "")
CellText(cell) ==
    CASE cell.t = "str"   -> cell.s
      [] cell.t = "int"   -> NatText(cell.n)
      [] cell.t = "float" -> NatText(cell.n) \o <<".">> \o cell.s
      [] cell.t = "bool"  -> IF cell.n = 1 THEN <<"T", "r", "u", "e">>
                                           ELSE <<"F", "a", "l", "s", "e">>
      [] OTHER            -> <<>>

RECURSIVE DoubleQuotes(_)
DoubleQuotes(s) ==
    IF s = <<>> THEN <<>>
    ELSE (IF Head(s) = DQuote THEN <<DQuote, DQuote>> ELSE <<Head(s)>>)
             \o DoubleQuotes(Tail(s))

\* csv.QUOTE_MINIMAL with lineterminator "\n"
NeedsQuote(s) == \E i \in 1..Len(s) : s[i] \in {Comma, DQuote, NL}

\* Mutant of QuoteField: fields are written as they are
QuoteFieldNever(s) == s

QuoteField(s) ==
    IF NeedsQuote(s) THEN <<DQuote>> \o DoubleQuotes(s) \o <<DQuote>> ELSE s

RECURSIVE JoinQuoted(_)
JoinQuoted(fields) ==
    IF Len(fields) = 1 THEN QuoteField(fields[1])
    ELSE QuoteField(Head(fields)) \o <<Comma>> \o JoinQuoted(Tail(fields))

\* csv.writer.writerow: a row whose only field is empty is written as a
\* pair of quotes, so that the line is not blank
JoinFields(fields) ==
    IF Len(fields) = 1 /\ fields[1] = <<>>
    THEN <<DQuote, DQuote>>
    ELSE JoinQuoted(fields)

WriteRow(fields) == JoinFields(fields) \o <<NL>>

RowTexts(row) == [j \in 1..Len(row) |-> CellText(row[j])]

to_csv(df) ==
    WriteRow(df.columns)
        \o Concat([i \in 1..Len(df.rows) |-> WriteRow(RowTexts(df.rows[i]))])

-----------------------------------------------------------------------------
(* pd.read_csv(csv_path) *)

\* The tokenizer.  The files read are the ones to_csv wrote, where a quote
\* character only opens a field, closes it, or is doubled inside it: a
\* character is inside a quoted field iff an odd number of quote characters
\* precede it.  (Computed by position rather than by a character loop.)
InQuotes(text, i) == Count(SubSeq(text, 1, i - 1), DQuote) % 2 = 1

Separators(text, c) == {i \in 1..Len(text) : text[i] = c /\ ~InQuotes(text, i)}

\* The pieces of text between the separator positions seps, in order
SplitAt(text, seps) ==
    LET stops == seps \cup {Len(text) + 1}
        nth(k) == CHOOSE p \in stops : Cardinality({q \in stops : q < p}) = k - 1
    IN  [k \in 1..Cardinality(stops) |->
            SubSeq(text, IF k = 1 THEN 1 ELSE nth(k - 1) + 1, nth(k) - 1)]

\* "a""b" inside a quoted field reads as a"b
RECURSIVE UndoubleQuotes(_)
UndoubleQuotes(s) ==
    IF s = <<>> THEN <<>>
    ELSE IF Head(s) = DQuote /\ Len(s) > 1 /\ s[2] = DQuote
         THEN <<DQuote>> \o UndoubleQuotes(SubSeq(s, 3, Len(s)))
         ELSE <<Head(s)>> \o UndoubleQuotes(Tail(s))

Unquote(field) ==
    IF Len(field) >= 2 /\ field[1] = DQuote /\ field[Len(field)] = DQuote
    THEN UndoubleQuotes(SubSeq(field, 2, Len(field) - 1))
    ELSE field

NotBlank(line) == line # <<>>

\* The records of the text, each a sequence of raw fields; blank lines are
\* skipped (skip_blank_lines=True).
Tokenize(text) ==
    LET lines == SelectSeq(SplitAt(text, Separators(text, NL)), NotBlank)
    IN  [i \in 1..Len(lines) |->
            LET fields == SplitAt(lines[i], Separators(lines[i], Comma))
            IN  [j \in 1..Len(fields) |-> Unquote(fields[j])]]

\* pandas' default na_values
NAValues ==
    {<<>>,
     <<"#", "N", "/", "A">>,
     <<"#", "N", "/", "A", " ", "N", "/", "A">>,
     <<"#", "N", "A">>,
     <<"-", "1", ".", "#", "I", "N", "D">>,
     <<"-", "1", ".", "#", "Q", "N", "A", "N">>,
     <<"-", "N", "a", "N">>,
     <<"-", "n", "a", "n">>,
     <<"1", ".", "#", "I", "N", "D">>,
     <<"1", ".", "#", "Q", "N", "A", "N">>,
     <<"<", "N", "A", ">">>,
     <<"N", "/", "A">>,
     <<"N", "A">>,
     <<"N", "U", "L", "L">>,
     <<"N", "a", "N">>,
     <<"N", "o", "n", "e">>,
     <<"n", "/", "a">>,
     <<"n", "a", "n">>,
     <<"n", "u", "l", "l">>}

TrueValues == {<<"T", "r", "u", "e">>, <<"T", "R", "U", "E">>, <<"t", "r", "u", "e">>}
FalseValues ==
    {<<"F", "a", "l", "s", "e">>, <<"F", "A", "L", "S", "E">>,
     <<"f", "a", "l", "s", "e">>}

IsNA(s) == s \in NAValues
IsIntText(s) == s # <<>> /\ \A i \in 1..Len(s) : IsDigit(s[i])
\* decimal notation only: digits, one point, digits
IsFloatText(s) ==
    /\ Count(s, ".") = 1
    /\ Len(s) > 1
    /\ \A i \in 1..Len(s) : s[i] = "." \/ IsDigit(s[i])
IsBoolText(s) == s \in TrueValues \cup FalseValues

PointAt(s) == CHOOSE i \in 1..Len(s) : s[i] = "."

\* float(text) as a cell: its repr drops leading zeros of the integer part
\* and trailing zeros of the fraction, keeping one fraction digit.
ParseFloat(s) ==
    IF IsIntText(s) THEN FloatCell(ParseNat(s, 0), <<"0">>)
    ELSE LET p == PointAt(s)
             frac == StripTrailingZeros(SubSeq(s, p + 1, Len(s)))
         IN  FloatCell(ParseNat(SubSeq(s, 1, p - 1), 0),
                       IF frac = <<>> THEN <<"0">> ELSE frac)

\* The dtype the C parser settles on for a column of raw fields: int64 if
\* every field is an integer, float64 if every field is a number or
\* missing, bool if every field is a boolean word, else object.
ColumnType(raws) ==
    LET idx == 1..Len(raws)
        present == {i \in idx : ~IsNA(raws[i])}
    IN  IF present = idx /\ \A i \in idx : IsIntText(raws[i]) THEN "int"
        ELSE IF \A i \in present : IsIntText(raws[i]) \/ IsFloatText(raws[i])
             THEN "float"
        ELSE IF \A i \in present : IsBoolText(raws[i]) THEN "bool"
        ELSE "object"

ConvertCell(raw, type) ==
    IF IsNA(raw) THEN NaN
    ELSE CASE type = "int"   -> IntCell(ParseNat(raw, 0))
           [] type = "float" -> ParseFloat(raw)
           [] type = "bool"  -> BoolCell(raw \in TrueValues)
           [] OTHER          -> StrCell(raw)

read_csv(text) ==
    LET records == Tokenize(text)
        header == records[1]
        data == Tail(records)
        column(j) == [i \in 1..Len(data) |-> data[i][j]]
        types == [j \in 1..Len(header) |-> ColumnType(column(j))]
    IN  [columns |-> header,
         rows |-> [i \in 1..Len(data) |->
                      [j \in 1..Len(header) |-> ConvertCell(data[i][j], types[j])]]]

\* The raw fields of the data rows of the record file
FileRows(text) == Tail(Tokenize(text))

-----------------------------------------------------------------------------
(* Mail: send_session_email *)

\* encode_file(path): base64 of the file's bytes
encode_file(file) == [b64 |-> file]

Attachment(content, horse_name, label) ==
    [content |-> content, name |-> <<horse_name, label>>, type |-> "image/png"]

\* "for path, label in [(left_path, 'left'), (right_path, 'right')]".
\* The main script attaches a file only if os.path.exists(path); the test
\* script opens every path, and gets here only when both files exist.
RECURSIVE attachments(_, _, _)
attachments(files, horse_name, sides) ==
    IF sides = <<>> THEN <<>>
    ELSE LET path == <<horse_name, Head(sides)>>
             rest == attachments(files, horse_name, Tail(sides))
         IN  IF files[path] = <<>>
             THEN rest
             ELSE <<Attachment(encode_file(files[path][1]), horse_name, Head(sides))>>
                      \o rest

\* The test script reads both files for the inline images (image_to_base64)
\* before the try block: a missing file raises FileNotFoundError out of
\* send_session_email.
raises_before_send(v, files, horse_name) ==
    /\ v = "test"
    /\ \E side \in {"left", "right"} : files[<<horse_name, side>>] = <<>>

\* Mutant of send_session_email: sg.send is called outside the try block
send_session_email_uncaught(v, to_email, horse_name, files, sendOk) ==
    IF raises_before_send(v, files, horse_name)
    THEN [raised |-> TRUE, requests |-> <<>>, result |-> FALSE]
    ELSE LET message == [to |-> to_email,
                         attachment |-> attachments(files, horse_name,
                                                    <<"left", "right">>)]
         IN  [raised |-> ~sendOk, requests |-> <<message>>, result |-> sendOk]

\* send_session_email: [raised, requests, result].  raised: an exception
\* left the function.  requests: the messages handed to sg.send.  result:
\* the value returned (TRUE sent, FALSE caught failure).  sendOk is the
\* delivery service's answer: FALSE when sg.send raises (no API key, auth,
\* network, quota).
send_session_email(v, to_email, horse_name, files, sendOk) ==
    IF raises_before_send(v, files, horse_name)
    THEN [raised |-> TRUE, requests |-> <<>>, result |-> FALSE]
    ELSE LET message == [to |-> to_email,
                         attachment |-> attachments(files, horse_name,
                                                    <<"left", "right">>)]
         IN  [raised |-> FALSE, requests |-> <<message>>, result |-> sendOk]

-----------------------------------------------------------------------------
(* The Save Session handler *)

csv_path_exists(file) == file # <<>>

\* Lines 179-184: build the row, read and concatenate the existing file if
\* there is one, write the file.
save_record(st, session) ==
    LET df == DataFrame(session)
        all == IF csv_path_exists(st.csv)
               THEN concat(read_csv(st.csv[1]), df)
               ELSE df
    IN  [st EXCEPT !.csv = <<to_csv(all)>>,
                   !.events = Append(@, "record"),
                   !.messages = Append(@, "success: Session saved!")]

\* Lines 188-191: one export_canvas_to_file call; n stamps the file written
save_image(st, n, canvas_data, background_image, horse_name, side) ==
    LET saved == export_canvas_to_file(canvas_data, background_image)
        path == <<horse_name, side>>
    IN  [st EXCEPT !.disk = IF saved = <<>> THEN @
                            ELSE [@ EXCEPT ![path] = <<[img |-> saved[1], writer |-> n]>>],
                   !.events = Append(@, IF side = "left" THEN "export_left"
                                                          ELSE "export_right")]

\* Lines 188-191: both exports, left then right
save_images(st, n, horse_name, canvas_left, canvas_right) ==
    save_image(save_image(st, n, canvas_left, left_img, horse_name, "left"),
               n, canvas_right, right_img, horse_name, "right")

\* Lines 194-199: "if client_email:" and the message shown for the result.
\* delivery: "none" (no address), "sent", "failed" (sg.send raised and was
\* caught), "raised" (an exception left send_session_email).  send_raised:
\* sg.send was called and raised.
send_mail(st, v, session, sendOk) ==
    IF session.Email = <<>> THEN st
    ELSE LET r == send_session_email(v, session.Email, session.Horse, st.disk, sendOk)
         IN  [st EXCEPT !.events = Append(@, "send"),
                        !.requests = @ \o r.requests,
                        !.send_raised = r.requests # <<>> /\ ~sendOk,
                        !.delivery = IF r.raised THEN "raised"
                                     ELSE IF r.result THEN "sent" ELSE "failed",
                        !.messages =
                            IF r.raised THEN Append(@, "exception")
                            ELSE IF r.result
                                 THEN Append(@, "success: Email sent to client!")
                                 ELSE @ \o <<"error: SendGrid error", "exception",
                                             "warning: Email failed to send.">>]

-----------------------------------------------------------------------------
(* Inputs of the handler *)

Date1 == <<"2", "0", "2", "4", "-", "0", "1", "-", "0", "5">>
Star == <<"S", "t", "a", "r">>
Client == <<"a", "@", "b", ".", "c", "o">>

Sessions ==
    { [Date |-> Date1, Horse |-> Star, Amount |-> FloatCell(50, <<"0">>),
       Paid |-> TRUE, Email |-> Client, Notes |-> <<"o", "k", NL, "r", "e", "s", "t">>],
      [Date |-> Date1, Horse |-> <<"0", "0", "7">>, Amount |-> FloatCell(0, <<"0">>),
       Paid |-> FALSE, Email |-> <<>>, Notes |-> <<"N", "/", "A">>],
      [Date |-> Date1, Horse |-> Star, Amount |-> FloatCell(12, <<"5">>),
       Paid |-> FALSE, Email |-> <<>>, Notes |-> <<"a", Comma, DQuote, "b", DQuote>>],
      [Date |-> Date1, Horse |-> <<>>, Amount |-> FloatCell(75, <<"0">>),
       Paid |-> TRUE, Email |-> Client, Notes |-> <<>>] }

Horses == {s.Horse : s \in Sessions}
Paths == Horses \X {"left", "right"}

DrawnPayload == Payload(<<PathObj(<<>>, <<>>, <<GoodPath>>)>>)
EmptyPayload == Payload(<<>>)

HandlerPayloads == {NoJson, EmptyPayload, DrawnPayload}

-----------------------------------------------------------------------------
(* State machine *)

NoRun ==
    [n |-> 0, session |-> <<>>, left |-> <<>>, right |-> <<>>,
     events |-> <<>>, messages |-> <<>>, requests |-> <<>>, delivery |-> "none",
     send_raised |-> FALSE]

\* The handler's working state at the button press
AtPress ==
    [csv |-> csv, disk |-> disk, events |-> <<>>, messages |-> <<>>,
     requests |-> <<>>, delivery |-> "none", send_raised |-> FALSE]

\* The state a finished handler run leaves behind
Finish(st, n, session, canvas_left, canvas_right) ==
    /\ csv' = st.csv
    /\ disk' = st.disk
    /\ saves' = n
    /\ run' = [n |-> n, session |-> <<session>>,
               left |-> <<canvas_left>>, right |-> <<canvas_right>>,
               events |-> st.events, messages |-> st.messages,
               requests |-> st.requests, delivery |-> st.delivery,
               send_raised |-> st.send_raised]
    /\ history' = Append(history, RowTexts(DataFrame(session).rows[1]))
    /\ UNCHANGED <<variant, rasterVars>>

HandlerIdle ==
    /\ csv = <<>>
    /\ disk = [p \in Paths |-> <<>>]
    /\ saves = 0
    /\ run = NoRun
    /\ history = <<>>

\* After the script's top level has run (os.makedirs, Image.open) in a
\* fresh checkout: no record file, no exported diagram.
Init ==
    /\ variant \in {"main", "test"}
    /\ HandlerIdle
    /\ RasterIdle

\* Mutant of SaveSession: the diagrams are exported before the record is
\* written
SaveSessionImagesFirst ==
    /\ saves < MaxSaves
    /\ \E session \in Sessions :
         \E canvas_left \in HandlerPayloads, canvas_right \in HandlerPayloads,
            sendOk \in BOOLEAN :
             Finish(send_mail(save_record(save_images(AtPress, saves + 1, session.Horse,
                                                      canvas_left, canvas_right),
                                          session),
                              variant, session, sendOk),
                    saves + 1, session, canvas_left, canvas_right)

\* One press of Save Session (lines 169-199): the record, the two
\* exports, the mail, in the order of the script.
SaveSession ==
    /\ saves < MaxSaves
    /\ \E session \in Sessions :
         LET recorded == save_record(AtPress, session) IN
         \E canvas_left \in HandlerPayloads, canvas_right \in HandlerPayloads,
            sendOk \in BOOLEAN :
             Finish(send_mail(save_images(recorded, saves + 1, session.Horse,
                                          canvas_left, canvas_right),
                              variant, session, sendOk),
                    saves + 1, session, canvas_left, canvas_right)

Next == SaveSession

Spec == Init /\ [][Next]_vars

\* The rasterizer alone, on every sample payload
RasterInit ==
    /\ variant = "main"
    /\ HandlerIdle
    /\ rs_canvas \in SamplePayloads
    /\ rs_saved = <<>>
    /\ rs_pc = "ready"

RasterNext == Export

RasterSpec == RasterInit /\ [][RasterNext]_vars

-----------------------------------------------------------------------------
(* What the rasterizer is expected to draw, stated on the payload *)

KnownOps == {"M", "L", "Q"}
CoordsNeeded(cmd) == IF cmd = "Q" THEN 4 ELSE 2

SegmentsOf(obj) == IF obj.path = <<>> THEN <<>> ELSE obj.path[1]

\* a move, line or curve segment with all its coordinates
WellFormedSegment(seg) ==
    /\ Len(seg) > 0
    /\ seg[1] \in KnownOps
    /\ Len(seg) - 1 >= CoordsNeeded(seg[1])

UnknownOpcode(seg) == Len(seg) > 0 /\ seg[1] \notin KnownOps

\* an empty segment, or a known opcode with too few coordinates
BrokenSegment(seg) == ~WellFormedSegment(seg) /\ ~UnknownOpcode(seg)

HasSegment(obj, P(_)) == \E i \in 1..Len(SegmentsOf(obj)) : P(SegmentsOf(obj)[i])
AllSegments(obj, P(_)) == \A i \in 1..Len(SegmentsOf(obj)) : P(SegmentsOf(obj)[i])

\* the end point of a segment: the control point of a curve is dropped
EndPoint(seg) == IF seg[1] = "Q" THEN <<seg[4], seg[5]>> ELSE <<seg[2], seg[3]>>

\* the end points of the well-formed segments, in segment order
Vertices(obj) ==
    LET good == SelectSeq(SegmentsOf(obj), WellFormedSegment)
    IN  [i \in 1..Len(good) |-> EndPoint(good[i])]

OpaqueRed == <<255, 0, 0, 255>>

\* the opaque colors the sample color strings name
NamedColor(c) ==
    CASE c \in {"Blue", "#00F"} -> <<0, 0, 255, 255>>
      [] c = "#00ff00"          -> <<0, 255, 0, 255>>
      [] c = "#ff0000"          -> OpaqueRed

OpaqueColorStrings == {"Blue", "#00F", "#00ff00", "#ff0000"}
ColorStringsWithAlpha == {"#00ff0080"}

ColorAbsent(obj) == obj.stroke = <<>>
ColorOpaque(obj) == obj.stroke # <<>> /\ obj.stroke[1] \in OpaqueColorStrings
ColorHasAlpha(obj) == obj.stroke # <<>> /\ obj.stroke[1] \in ColorStringsWithAlpha
ColorMalformed(obj) == ~ColorAbsent(obj) /\ ~ColorOpaque(obj) /\ ~ColorHasAlpha(obj)

WidthAbsent(obj) == obj.strokeWidth = <<>>
WidthValid(obj) ==
    obj.strokeWidth # <<>> /\ obj.strokeWidth[1].kind \in {"int", "float", "numstr"}

\* the declared width as a whole number of pixels
DeclaredWidth(obj) ==
    LET w == obj.strokeWidth[1]
    IN  IF w.kind = "float" THEN (w.n - (w.n % 10)) \div 10 ELSE w.n

DefaultWidth == 3

\* color and width with the defaults standing in for an absent value only
ColorOrRed(obj) == IF ColorAbsent(obj) THEN OpaqueRed ELSE NamedColor(obj.stroke[1])
WidthOrDefault(obj) == IF WidthAbsent(obj) THEN DefaultWidth ELSE DeclaredWidth(obj)

\* color and width with the defaults standing in for a malformed value too
ColorOrRedLenient(obj) == IF ColorOpaque(obj) THEN NamedColor(obj.stroke[1]) ELSE OpaqueRed
WidthOrDefaultLenient(obj) == IF WidthValid(obj) THEN DeclaredWidth(obj) ELSE DefaultWidth

\* the style can be drawn with: nothing in it raises
StyleDraws(obj) ==
    /\ ColorAbsent(obj) \/ ColorOpaque(obj)
    /\ WidthAbsent(obj) \/ WidthValid(obj)

Polyline(xy, fill, width) ==
    IF Len(xy) >= 2 THEN <<[xy |-> xy, fill |-> fill, width |-> width]>> ELSE <<>>

IsPath(obj) == obj.type = "path"

RasterDone == rs_pc = "done" /\ rs_canvas.truthy /\ rs_canvas.objects # <<>>
ObjectsIn == rs_canvas.objects[1]
LinesDrawn == rs_saved[1].lines

\* the lines of the saved image are the objects' shares, in payload order
DrawnIs(Share(_)) ==
    /\ rs_saved # <<>>
    /\ LinesDrawn = Concat([i \in 1..Len(ObjectsIn) |-> Share(ObjectsIn[i])])

-----------------------------------------------------------------------------
(* Claims about the rasterizer, checked under RasterSpec *)

AllObjects(P(_)) == \A i \in 1..Len(ObjectsIn) : P(ObjectsIn[i])

\* A stroke is malformed when its style cannot be drawn with or one of its
\* segments is not a well-formed move, line or curve.
MalformedStroke(obj) ==
    IsPath(obj) /\ (~StyleDraws(obj) \/ ~AllSegments(obj, WellFormedSegment))

\* the share of a path stroke unless anything in it is malformed
ShareUnlessMalformed(obj) ==
    IF IsPath(obj) /\ ~MalformedStroke(obj)
    THEN Polyline(Vertices(obj), ColorOrRed(obj), WidthOrDefault(obj))
    ELSE <<>>

\* the share of a path stroke unless its style raises or a segment is
\* broken; a segment with an unknown opcode is passed over
ShareUnlessRaises(obj) ==
    IF IsPath(obj) /\ StyleDraws(obj) /\ ~HasSegment(obj, BrokenSegment)
    THEN Polyline(Vertices(obj), ColorOrRed(obj), WidthOrDefault(obj))
    ELSE <<>>

\* C5 as stated: a malformed stroke (unknown opcode, too few coordinates,
\* empty segment, bad color or width) draws nothing, every other path
\* stroke of the payload is drawn, and the image is saved.
C5_Original == RasterDone => DrawnIs(ShareUnlessMalformed)

\* C5 as amended: the image is always saved and every stroke is drawn or
\* skipped on its own; a stroke whose style raises or that has an empty or
\* too short segment draws nothing, while a segment with an unknown opcode
\* is passed over and the stroke is drawn through its other vertices.
C5_StrokesIndependent == RasterDone => DrawnIs(ShareUnlessRaises)

RaisingStroke(obj) ==
    IsPath(obj) /\ (~StyleDraws(obj) \/ HasSegment(obj, BrokenSegment))
UnknownOpcodeStroke(obj) ==
    /\ IsPath(obj) /\ StyleDraws(obj)
    /\ HasSegment(obj, UnknownOpcode) /\ ~HasSegment(obj, BrokenSegment)

\* a raising stroke first, then a stroke with an unknown opcode, drawn
C5_Witness ==
    /\ RasterDone
    /\ Len(ObjectsIn) = 2
    /\ RaisingStroke(ObjectsIn[1])
    /\ UnknownOpcodeStroke(ObjectsIn[2])
    /\ rs_saved # <<>>
    /\ Len(LinesDrawn) = 1

\* The scope of C6: path strokes with well-formed segments and at least
\* two vertices.
DrawableShape(obj) ==
    /\ IsPath(obj)
    /\ AllSegments(obj, WellFormedSegment)
    /\ Len(Vertices(obj)) >= 2

StyledLenient(obj) ==
    Polyline(Vertices(obj), ColorOrRedLenient(obj), WidthOrDefaultLenient(obj))

StyledStrict(obj) ==
    IF StyleDraws(obj)
    THEN Polyline(Vertices(obj), ColorOrRed(obj), WidthOrDefault(obj))
    ELSE <<>>

\* C6 as stated: every such stroke is drawn, with the declared color and
\* width where valid and opaque red and 3 where absent or malformed.
C6_Original == RasterDone /\ AllObjects(DrawableShape) => DrawnIs(StyledLenient)

\* C6 as amended: such a stroke is drawn with the declared opaque color, or
\* opaque red if none is declared, and the declared width as an integer, or
\* 3 if none is declared; a stroke whose declared color or width is
\* malformed, or whose color carries an alpha channel, is not drawn.
C6_DefaultsForAbsentOnly == RasterDone /\ AllObjects(DrawableShape) => DrawnIs(StyledStrict)

C6_Witness ==
    /\ RasterDone
    /\ Len(ObjectsIn) = 2
    /\ AllObjects(DrawableShape)
    /\ ColorMalformed(ObjectsIn[1])
    /\ ColorAbsent(ObjectsIn[2]) /\ WidthAbsent(ObjectsIn[2])
    /\ rs_saved # <<>>
    /\ Len(LinesDrawn) = 1
    /\ LinesDrawn[1].fill = OpaqueRed
    /\ LinesDrawn[1].width = DefaultWidth

\* The scope of C8: path strokes whose segments are all well-formed.
WellFormedPath(obj) == IsPath(obj) /\ AllSegments(obj, WellFormedSegment)

XYDrawn == [i \in 1..Len(LinesDrawn) |-> LinesDrawn[i].xy]

VertexList(obj) == IF Len(Vertices(obj)) >= 2 THEN <<Vertices(obj)>> ELSE <<>>

PolylinesAre(Share(_)) ==
    /\ rs_saved # <<>>
    /\ XYDrawn = Concat([i \in 1..Len(ObjectsIn) |-> Share(ObjectsIn[i])])

\* C8 as stated: every stroke whose segments are well-formed M, L or Q is
\* drawn as one polyline through its segments' end points, in order, when
\* it has at least two vertices, and not at all when it has fewer.
C8_Original == RasterDone /\ AllObjects(WellFormedPath) => PolylinesAre(VertexList)

WellFormedStyledPath(obj) == WellFormedPath(obj) /\ StyleDraws(obj)

\* C8 as amended: the same, for the strokes whose color and width can be
\* drawn with.
C8_PolylineThroughEndPoints ==
    RasterDone /\ AllObjects(WellFormedStyledPath) => PolylinesAre(VertexList)

IsCurve(seg) == seg[1] = "Q"

\* a stroke with a curve drawn, beside a stroke of one vertex not drawn
C8_Witness ==
    /\ RasterDone
    /\ Len(ObjectsIn) = 2
    /\ AllObjects(WellFormedStyledPath)
    /\ HasSegment(ObjectsIn[1], IsCurve)
    /\ Len(Vertices(ObjectsIn[2])) = 1
    /\ rs_saved # <<>>
    /\ Len(LinesDrawn) = 1
    /\ Len(LinesDrawn[1].xy) = 3

PayloadEmptyOrAbsent ==
    \/ ~rs_canvas.truthy
    \/ rs_canvas.objects = <<>>
    \/ rs_canvas.objects[1] = <<>>

\* C7 as stated: for an empty or absent payload the file saved at
\* save_path is the background converted to RGBA, with nothing drawn.
C7_Original ==
    rs_pc = "done" /\ PayloadEmptyOrAbsent
        => rs_saved = <<[src |-> left_img.src, mode |-> "RGBA", lines |-> <<>>]>>

-----------------------------------------------------------------------------
(* Claims about the Save Session handler, checked under Spec *)

Pressed == run.n > 0
Session == run.session[1]
WithEmail == Pressed /\ Session.Email # <<>>

\* C1 as stated: no delivery request without a client email; with one,
\* exactly one request, carrying exactly two attachments.
C1_Original ==
    Pressed =>
        IF Session.Email = <<>>
        THEN run.requests = <<>>
        ELSE /\ Len(run.requests) = 1
             /\ Len(run.requests[1].attachment) = 2

\* C2: when sg.send raises, send_session_email catches it and returns
\* False, the handler ends with the warning, and the session's row is the
\* last row of the record file.
C2_FailureCaughtRecordKept ==
    Pressed /\ run.send_raised =>
        /\ run.delivery = "failed"
        /\ run.messages[Len(run.messages)] = "warning: Email failed to send."
        /\ csv # <<>>
        /\ Len(FileRows(csv[1])) = saves
        /\ FileRows(csv[1])[saves] = history[saves]

C2_Witness ==
    /\ Pressed
    /\ run.send_raised
    /\ run.delivery = "failed"
    /\ saves = 2

RECURSIVE SumSeq(_)
SumSeq(ns) == IF ns = <<>> THEN 0 ELSE Head(ns) + SumSeq(Tail(ns))

\* line breaks inside the field values saved so far
EmbeddedLineBreaks ==
    SumSeq([i \in 1..Len(history) |->
               SumSeq([j \in 1..Len(history[i]) |-> Count(history[i][j], NL)])])

LinesOfFile == Count(csv[1], NL)

\* C3 as stated: after N saves the record file has exactly N + 1 lines.
C3_Original == csv # <<>> => LinesOfFile = saves + 1

\* C3 as amended: no record file exists before the first save; after
\* N >= 1 saves the file holds N + 1 records, the header Date, Horse,
\* Amount, Paid, Email, Notes and N data rows of six fields, and its line
\* count is N + 1 plus the number of line breaks inside the saved field
\* values.
C3_HeaderAndRows ==
    /\ (csv = <<>>) <=> (saves = 0)
    /\ csv # <<>> =>
        LET records == Tokenize(csv[1])
        IN  /\ Len(records) = saves + 1
            /\ records[1] = Columns
            /\ \A i \in 1..Len(records) : Len(records[i]) = Len(Columns)
            /\ LinesOfFile = saves + 1 + EmbeddedLineBreaks

C3_Witness ==
    /\ saves = 2
    /\ csv # <<>>
    /\ EmbeddedLineBreaks > 0
    /\ LinesOfFile > saves + 1

\* C4 as stated: every row saved so far is in the record file, at its
\* position, with the field values it was saved with.
C4_Original == csv # <<>> => FileRows(csv[1]) = history

Position(events, e) == CHOOSE i \in 1..Len(events) : events[i] = e

\* C9 as stated: both diagrams are exported before the record is written.
C9_Original ==
    Pressed =>
        /\ Position(run.events, "export_left") < Position(run.events, "record")
        /\ Position(run.events, "export_right") < Position(run.events, "record")

\* C9 as amended: within one save the record is written first, then the
\* left and the right canvas are exported, then, only if a client email
\* was given, the message is composed and sent.
C9_RecordThenExportsThenMail ==
    Pressed =>
        run.events = <<"record", "export_left", "export_right">>
                        \o (IF Session.Email # <<>> THEN <<"send">> ELSE <<>>)

C9_Witness ==
    /\ WithEmail
    /\ run.delivery = "sent"
    /\ Len(run.events) = 4
    /\ \A side \in {"left", "right"} :
          /\ disk[<<Session.Horse, side>>] # <<>>
          /\ disk[<<Session.Horse, side>>][1].writer = run.n

\* C10 as stated: every attachment of a delivery request is the file this
\* save wrote.
C10_Original ==
    Pressed =>
        \A r \in 1..Len(run.requests) :
            \A a \in 1..Len(run.requests[r].attachment) :
                run.requests[r].attachment[a].content.b64.writer = run.n

=============================================================================
